---- MODULE Spec2Model ----
(***************************************************************************)
(* SMAQ token ledger and deferred-purchase settlement of Amorina-backend.  *)
(*                                                                         *)
(* Every request handler is a process; one action is one stretch of a      *)
(* handler between two round trips to storage (Supabase, the SMAQ_INTENTS  *)
(* sheet, MercadoPago), so handlers interleave exactly at their awaits.    *)
(* The box office (reservations of one showtime and the scans of their     *)
(* tickets) is modelled the same way over the reservations sheet.          *)
(***************************************************************************)
EXTENDS Integers, Sequences, FiniteSets, TLC

\* ---------------------------------------------------------------- bounds
MaxInitBalance == 2
MaxAmount == 2
MaxTicks == 1
\* seats of the showtime still unsold when the model starts
MaxFreeSpots == 1

\* ------------------------------------------------------ program constants
\* purchase-intent.ts:125 and bank.ts:569: 30 * 60 * 1000 ms, in minutes
EXPIRY_MINUTES == 30

\* core: export const MAX_CAPACITY = 60
MAX_CAPACITY == 60
\* core DEFAULT_PRICING.basePrice
BASE_PRICE == 6000

\* ---------------------------------------------------------------- inputs
\* rows of the citizens table; "x" is an e-mail with no citizen row
Citizens == {"a", "b"}
Emails == Citizens \cup {"x"}
\* the citizen whose requests a specification follows, unless it says
\* otherwise; the other rows of the table are then left alone
Customers == {"a"}
CustomerEmails == Customers \cup {"x"}
Amounts == 1..MaxAmount
\* suggestExtraSmaqs of the top-up request (default 0)
ExtraSmaqs == {0, 1}
\* core PaymentStatus, the statuses processWebhook maps MercadoPago's to
PaymentStatuses == {"PENDING", "APPROVED", "REJECTED", "REFUNDED", "CANCELLED"}
\* IntentStatus of purchase-intent.ts
IntentStatuses == {"pending", "paid", "completed", "expired", "cancelled"}
\* how an external reference starts: a SMAQ top-up, or a ticket reservation
RefPrefixes == {"SMAQ-", "AMO-"}
\* an external reference that is the id of no intent
UnknownRef == 0
\* walletObjectId of a request: absent, or the id of a Google Wallet pass
NoWallet == ""
WalletIds == {"pass"}
\* the clock advances by a little more than one expiry window
TickMinutes == EXPIRY_MINUTES + 1

\* ------------------------------------------------------------- processes
TopupProcs == {"t1"}
WebhookProcs == {"w1", "w2"}
ChargeProcs == {"c1"}
CreditProcs == {"k1"}
BalanceProcs == {"b1"}
LinkProcs == {"l1"}
ReserveProcs == {"r1", "r2"}
ScanProcs == {"s1", "s2"}
CinemaProcs == ReserveProcs \cup ScanProcs
Procs == TopupProcs \cup WebhookProcs \cup ChargeProcs \cup CreditProcs
            \cup BalanceProcs \cup LinkProcs

VARIABLES
    balance,      \* citizens.dracma_balance, per citizen
    history,      \* dracma_transactions, per citizen, oldest first
    intents,      \* data rows of the SMAQ_INTENTS sheet
    preferences,  \* MercadoPago preferences created for intents
    approved,     \* external references of approved MercadoPago payments
    now,          \* wall clock, minutes
    proc,         \* per handler: position, locals, results
    reservations, \* data rows of the reservations sheet, one showtime
    cproc         \* per box-office handler: position, locals, results

\* the box office (reservations and tickets) shares no state with the ledger
cinema == <<reservations, cproc>>

vars == <<balance, history, intents, preferences, approved, now, proc, cinema>>

\* ------------------------------------------------------------ data shapes
NoIntent ==
    [id |-> 0, userEmail |-> "", smaqRequired |-> 0, smaqTopup |-> 0,
     mpPreferenceId |-> 0, createdAt |-> 0, expiresAt |-> 0, status |-> "",
     walletObjectId |-> ""]

\* ChargeResult / CreditResult; called = FALSE before the call returned.
\* tenes / necesitas are the two numbers of the "Saldo insuficiente" text.
NoResult ==
    [called |-> FALSE, success |-> FALSE, newBalance |-> 0, error |-> "",
     tenes |-> 0, necesitas |-> 0]

IdleProc ==
    [pc |-> "idle", email |-> "", amount |-> 0, extra |-> 0, bal |-> 0,
     ref |-> 0, intent |-> NoIntent, creditRes |-> NoResult,
     chargeRes |-> NoResult, action |-> "", readAt |-> 0,
     late |-> FALSE, after |-> {}, errors |-> 0,
     walletObjectId |-> "", sync |-> "", payStatus |-> "", prefix |-> ""]

RECURSIVE SumAmounts(_)
SumAmounts(s) == IF s = <<>> THEN 0 ELSE Head(s).amount + SumAmounts(Tail(s))

\* ---------------------------------------------------------------- ledger
\* lookup that answers the first citizen row for every known e-mail
getCitizenId_firstRow(email) ==
    IF email \in Citizens THEN CHOOSE c \in Citizens : c = "a" ELSE ""

\* SmaqBank.getCitizenId: the id of the citizen row, null (here "") if none
getCitizenId(email) == IF email \in Citizens THEN email ELSE ""

\* SmaqBank.getBalance: 0 when there is no citizen row
getBalance(email) == IF email \in Citizens THEN balance[email] ELSE 0

\* Postgres function record_dracma_transaction: under a row lock it adds
\* p_amount to the balance and appends the transaction, or raises
\* "Insufficient ..." and writes nothing when the balance would go negative.
record_dracma_transaction(bal, p_amount) ==
    IF bal + p_amount < 0
    THEN [error |-> "Insufficient", new_balance |-> bal]
    ELSE [error |-> "", new_balance |-> bal + p_amount]

\* the rows the committed function leaves behind
Committed(cid, p_type, p_amount, new_balance, by) ==
    /\ balance' = [balance EXCEPT ![cid] = new_balance]
    /\ history' = [history EXCEPT
                     ![cid] = Append(@, [amount |-> p_amount, type |-> p_type,
                                         by |-> by])]

Success(newBalance) ==
    [called |-> TRUE, success |-> TRUE, newBalance |-> newBalance,
     error |-> "", tenes |-> 0, necesitas |-> 0]

Failure(newBalance, error, tenes, necesitas) ==
    [called |-> TRUE, success |-> FALSE, newBalance |-> newBalance,
     error |-> error, tenes |-> tenes, necesitas |-> necesitas]

\* webhook that completes the intent whatever the charge returned
AfterCharge_alwaysCompletes(p, email, amount, r) ==
    LET q == [proc[p] EXCEPT !.email = email, !.amount = amount,
                             !.chargeRes = r] IN
    IF p \in WebhookProcs
    THEN [q EXCEPT !.pc = "markCompleted"]
    ELSE IF p \in TopupProcs
    THEN [q EXCEPT !.pc = IF r.success /\ q.walletObjectId # NoWallet
                          THEN "walletSync" ELSE "done",
                   !.action = IF r.success THEN "charged" ELSE "error"]
    ELSE [q EXCEPT !.pc = "done",
                   !.action = IF r.success THEN "ok" ELSE "error"]

\* top-up handler that answers a refused charge by opening a top-up
AfterCharge_toTopup(p, email, amount, r) ==
    LET q == [proc[p] EXCEPT !.email = email, !.amount = amount,
                             !.chargeRes = r] IN
    IF p \in WebhookProcs
    THEN IF r.success
         THEN [q EXCEPT !.pc = "markCompleted"]
         ELSE [q EXCEPT !.pc = "done", !.errors = @ + 1, !.action = "stuck"]
    ELSE IF p \in TopupProcs
    THEN IF r.success
         THEN [q EXCEPT !.pc = IF q.walletObjectId # NoWallet
                               THEN "walletSync" ELSE "done",
                        !.action = "charged"]
         ELSE [q EXCEPT !.pc = "createIntent", !.bal = r.newBalance]
    ELSE [q EXCEPT !.pc = "done",
                   !.action = IF r.success THEN "ok" ELSE "error"]

\* What a handler does, without another round trip, once charge returned r.
AfterCharge(p, email, amount, r) ==
    LET q == [proc[p] EXCEPT !.email = email, !.amount = amount,
                             !.chargeRes = r] IN
    IF p \in WebhookProcs
    THEN IF r.success
         THEN [q EXCEPT !.pc = "markCompleted"]
         ELSE [q EXCEPT !.pc = "done", !.errors = @ + 1, !.action = "stuck"]
    ELSE IF p \in TopupProcs
    THEN [q EXCEPT !.pc = IF r.success /\ q.walletObjectId # NoWallet
                          THEN "walletSync" ELSE "done",
                   !.action = IF r.success THEN "charged" ELSE "error"]
    ELSE [q EXCEPT !.pc = "done",
                   !.action = IF r.success THEN "ok" ELSE "error"]

\* charge that updates the citizen row itself, without the guarded function
charge_direct(p, email, amount) ==
    LET cid == getCitizenId(email) IN
    IF cid = ""
    THEN /\ proc' = [proc EXCEPT
                       ![p] = AfterCharge(p, email, amount,
                                          Failure(0, "Usuario no encontrado", 0, 0))]
         /\ UNCHANGED <<balance, history>>
    ELSE /\ Committed(cid, "consumo", -amount, balance[cid] - amount, p)
         /\ proc' = [proc EXCEPT
                       ![p] = AfterCharge(p, email, amount,
                                          Success(balance[cid] - amount))]

\* charge that does not look at the error of the function call
charge_unchecked(p, email, amount) ==
    LET cid == getCitizenId(email) IN
    IF cid = ""
    THEN /\ proc' = [proc EXCEPT
                       ![p] = AfterCharge(p, email, amount,
                                          Failure(0, "Usuario no encontrado", 0, 0))]
         /\ UNCHANGED <<balance, history>>
    ELSE LET r == record_dracma_transaction(balance[cid], -amount) IN
         IF r.error = "Insufficient"
         THEN /\ proc' = [proc EXCEPT
                            ![p] = AfterCharge(p, email, amount,
                                               Success(getBalance(email)))]
              /\ UNCHANGED <<balance, history>>
         ELSE /\ Committed(cid, "consumo", -amount, r.new_balance, p)
              /\ proc' = [proc EXCEPT
                            ![p] = AfterCharge(p, email, amount,
                                               Success(r.new_balance))]

\* charge that takes an e-mail without a citizen row for an empty account
charge_unknownAsZero(p, email, amount) ==
    LET cid == getCitizenId(email) IN
    IF cid = ""
    THEN /\ proc' = [proc EXCEPT
                       ![p] = AfterCharge(p, email, amount,
                                          Failure(0, "Saldo insuficiente",
                                                  0, amount))]
         /\ UNCHANGED <<balance, history>>
    ELSE LET r == record_dracma_transaction(balance[cid], -amount) IN
         IF r.error = "Insufficient"
         THEN /\ proc' = [proc EXCEPT ![p].pc = "chargeInsufficient",
                                      ![p].email = email, ![p].amount = amount]
              /\ UNCHANGED <<balance, history>>
         ELSE /\ Committed(cid, "consumo", -amount, r.new_balance, p)
              /\ proc' = [proc EXCEPT
                            ![p] = AfterCharge(p, email, amount,
                                               Success(r.new_balance))]

\* SmaqBank.charge up to the return of the record_dracma_transaction call
charge(p, email, amount) ==
    LET cid == getCitizenId(email) IN
    IF cid = ""
    THEN /\ proc' = [proc EXCEPT
                       ![p] = AfterCharge(p, email, amount,
                                          Failure(0, "Usuario no encontrado", 0, 0))]
         /\ UNCHANGED <<balance, history>>
    ELSE LET r == record_dracma_transaction(balance[cid], -amount) IN
         IF r.error = "Insufficient"
         THEN /\ proc' = [proc EXCEPT ![p].pc = "chargeInsufficient",
                                      ![p].email = email, ![p].amount = amount]
              /\ UNCHANGED <<balance, history>>
         ELSE /\ Committed(cid, "consumo", -amount, r.new_balance, p)
              /\ proc' = [proc EXCEPT
                            ![p] = AfterCharge(p, email, amount,
                                               Success(r.new_balance))]

\* insufficient branch that answers like the generic error branch
chargeInsufficient_zero(p) ==
    /\ proc[p].pc = "chargeInsufficient"
    /\ proc' = [proc EXCEPT
                  ![p] = AfterCharge(p, proc[p].email, proc[p].amount,
                                     Failure(0, "Saldo insuficiente",
                                             0, proc[p].amount))]
    /\ UNCHANGED <<balance, history, intents, preferences, approved, now, cinema>>

\* SmaqBank.charge, insufficient branch: re-read the balance, build the error
chargeInsufficient(p) ==
    /\ proc[p].pc = "chargeInsufficient"
    /\ LET currentBalance == getBalance(proc[p].email) IN
       proc' = [proc EXCEPT
                  ![p] = AfterCharge(p, proc[p].email, proc[p].amount,
                                     Failure(currentBalance, "Saldo insuficiente",
                                             currentBalance, proc[p].amount))]
    /\ UNCHANGED <<balance, history, intents, preferences, approved, now, cinema>>

\* What a handler does once credit returned r.
AfterCredit(p, email, amount, r) ==
    IF p \in WebhookProcs
    THEN [proc[p] EXCEPT !.creditRes = r, !.pc = "charge"]
    ELSE [proc[p] EXCEPT !.creditRes = r, !.pc = "done", !.action = "ok",
                         !.email = email, !.amount = amount]

\* credit that refuses a non-positive amount, as the credit endpoint does
credit_positiveOnly(p, email, amount) ==
    LET cid == getCitizenId(email) IN
    IF cid = "" \/ amount <= 0
    THEN /\ proc' = [proc EXCEPT ![p] = AfterCredit(p, email, amount, Failure(0, "", 0, 0))]
         /\ UNCHANGED <<balance, history>>
    ELSE LET r == record_dracma_transaction(balance[cid], amount) IN
         /\ Committed(cid, "acreditacion", amount, r.new_balance, p)
         /\ proc' = [proc EXCEPT
                       ![p] = AfterCredit(p, email, amount,
                                          Success(r.new_balance))]

\* credit that, like charge, wants the balance to cover the amount
credit_requiresFunds(p, email, amount) ==
    LET cid == getCitizenId(email) IN
    IF cid = "" \/ balance[cid] < amount
    THEN /\ proc' = [proc EXCEPT ![p] = AfterCredit(p, email, amount, Failure(0, "", 0, 0))]
         /\ UNCHANGED <<balance, history>>
    ELSE LET r == record_dracma_transaction(balance[cid], amount) IN
         /\ Committed(cid, "acreditacion", amount, r.new_balance, p)
         /\ proc' = [proc EXCEPT
                       ![p] = AfterCredit(p, email, amount,
                                          Success(r.new_balance))]

\* SmaqBank.credit
credit(p, email, amount) ==
    LET cid == getCitizenId(email) IN
    IF cid = ""
    THEN /\ proc' = [proc EXCEPT ![p] = AfterCredit(p, email, amount, Failure(0, "", 0, 0))]
         /\ UNCHANGED <<balance, history>>
    ELSE LET r == record_dracma_transaction(balance[cid], amount) IN
         IF r.error # ""
         THEN /\ proc' = [proc EXCEPT ![p] = AfterCredit(p, email, amount, Failure(0, "", 0, 0))]
              /\ UNCHANGED <<balance, history>>
         ELSE /\ Committed(cid, "acreditacion", amount, r.new_balance, p)
              /\ proc' = [proc EXCEPT
                            ![p] = AfterCredit(p, email, amount,
                                               Success(r.new_balance))]

\* ------------------------------------------------ POST /api/smaq/charge
\* validation, then SmaqBank.charge; the handler touches no shared state
\* before the record_dracma_transaction call, so both are one step
ChargeApi(p, email, amount) ==
    /\ proc[p].pc = "idle"
    /\ amount > 0
    /\ charge(p, email, amount)
    /\ UNCHANGED <<intents, preferences, approved, now, cinema>>

\* ------------------------------------------------ POST /api/smaq/credit
CreditApi(p, email, amount) ==
    /\ proc[p].pc = "idle"
    /\ amount > 0
    /\ credit(p, email, amount)
    /\ UNCHANGED <<intents, preferences, approved, now, cinema>>

\* ------------------------------------------------- POST /api/smaq/topup
\* validation and the balance read; readAt remembers how long the
\* account's history was when the balance was read
TopupStart(p, email, smaqPrice, suggestExtraSmaqs, walletObjectId) ==
    /\ proc[p].pc = "idle"
    /\ smaqPrice > 0
    /\ LET currentBalance == getBalance(email) IN
       proc' = [proc EXCEPT
                  ![p].pc = IF currentBalance >= smaqPrice
                            THEN "charge" ELSE "createIntent",
                  ![p].email = email, ![p].amount = smaqPrice,
                  ![p].extra = suggestExtraSmaqs, ![p].bal = currentBalance,
                  ![p].walletObjectId = walletObjectId,
                  ![p].readAt = IF email \in Citizens
                                THEN Len(history[email]) ELSE 0]
    /\ UNCHANGED <<balance, history, intents, preferences, approved, now, cinema>>

\* purchase that also takes the suggested buffer
TopupCharge_withBuffer(p) ==
    /\ proc[p].pc = "charge"
    /\ charge(p, proc[p].email, proc[p].amount + proc[p].extra)
    /\ UNCHANGED <<intents, preferences, approved, now, cinema>>

\* the purchase: the balance read covered the price
TopupCharge(p) ==
    /\ proc[p].pc = "charge"
    /\ charge(p, proc[p].email, proc[p].amount)
    /\ UNCHANGED <<intents, preferences, approved, now, cinema>>

\* PurchaseIntentService.createIntent: a new pending row
createIntent(userEmail, smaqRequired, smaqTopup, walletObjectId) ==
    [id |-> Len(intents) + 1, userEmail |-> userEmail,
     smaqRequired |-> smaqRequired, smaqTopup |-> smaqTopup,
     mpPreferenceId |-> 0, createdAt |-> now,
     expiresAt |-> now + EXPIRY_MINUTES, status |-> "pending",
     walletObjectId |-> walletObjectId]

\* intent that leaves the suggested buffer out of the top-up
TopupCreateIntent_noBuffer(p) ==
    /\ proc[p].pc = "createIntent"
    /\ LET smaqNeeded == proc[p].amount - proc[p].bal
           intent == createIntent(proc[p].email, proc[p].amount, smaqNeeded,
                                  proc[p].walletObjectId)
       IN /\ intents' = Append(intents, intent)
          /\ proc' = [proc EXCEPT ![p].pc = "createPreference",
                                  ![p].intent = intent]
    /\ UNCHANGED <<balance, history, preferences, approved, now, cinema>>

\* the balance read did not cover the price: the shortfall becomes an intent
TopupCreateIntent(p) ==
    /\ proc[p].pc = "createIntent"
    /\ LET smaqNeeded == proc[p].amount - proc[p].bal
           smaqToTopup == smaqNeeded + proc[p].extra
           intent == createIntent(proc[p].email, proc[p].amount, smaqToTopup,
                                  proc[p].walletObjectId)
       IN /\ intents' = Append(intents, intent)
          /\ proc' = [proc EXCEPT ![p].pc = "createPreference",
                                  ![p].intent = intent]
    /\ UNCHANGED <<balance, history, preferences, approved, now, cinema>>

\* TopupCheckoutService.createTopupPreference: external_reference is the
\* intent id; the checkout expires 30 minutes after it is created.  When
\* preference.create throws, the handler's catch answers 500.
TopupCreatePreference(p, thrown) ==
    /\ proc[p].pc = "createPreference"
    /\ IF thrown
       THEN /\ proc' = [proc EXCEPT ![p].pc = "done", ![p].action = "error500"]
            /\ UNCHANGED preferences
       ELSE /\ preferences' = preferences \cup
                  {[intentId |-> proc[p].intent.id,
                    smaqAmount |-> proc[p].intent.smaqTopup,
                    expiresTo |-> now + EXPIRY_MINUTES]}
            /\ proc' = [proc EXCEPT ![p].pc = "setMpPreferenceId"]
    /\ UNCHANGED <<balance, history, intents, approved, now, cinema>>

\* attach that writes the whole row back as it was created
setMpPreferenceId_rewritesRow(intentId, preferenceId) ==
    [i \in DOMAIN intents |->
        IF intents[i].id = intentId
        THEN [intents[i] EXCEPT !.mpPreferenceId = preferenceId,
                                !.status = "pending"]
        ELSE intents[i]]

\* PurchaseIntentService.setMpPreferenceId
setMpPreferenceId(intentId, preferenceId) ==
    [i \in DOMAIN intents |->
        IF intents[i].id = intentId
        THEN [intents[i] EXCEPT !.mpPreferenceId = preferenceId]
        ELSE intents[i]]

TopupSetMpPreferenceId(p) ==
    /\ proc[p].pc = "setMpPreferenceId"
    /\ intents' = setMpPreferenceId(proc[p].intent.id, proc[p].intent.id)
    /\ proc' = [proc EXCEPT ![p].pc = "done", ![p].action = "topup_required"]
    /\ UNCHANGED <<balance, history, preferences, approved, now, cinema>>

\* ------------------------------------------------------------ MercadoPago
\* the customer pays an open checkout; MercadoPago records it as approved
Pay(pref) ==
    /\ pref \in preferences
    /\ pref.intentId \notin approved
    /\ now <= pref.expiresTo
    /\ approved' = approved \cup {pref.intentId}
    /\ UNCHANGED <<balance, history, intents, preferences, now, proc, cinema>>

\* ----------------------------------------------- POST /api/smaq/webhook
\* PurchaseIntentService.getIntent: the first row with that id, else NoIntent
getIntent(intentId) ==
    IF \E i \in DOMAIN intents : intents[i].id = intentId
    THEN intents[CHOOSE i \in DOMAIN intents :
                    /\ intents[i].id = intentId
                    /\ \A j \in DOMAIN intents :
                          intents[j].id = intentId => i <= j]
    ELSE NoIntent

getIntentByExternalRef(externalRef) == getIntent(externalRef)

\* PurchaseIntentService.updateStatus: writes the status cell of the row
updateStatus(intentId, status) ==
    [i \in DOMAIN intents |->
        IF intents[i].id = intentId
        THEN [intents[i] EXCEPT !.status = status]
        ELSE intents[i]]

markPaid(intentId) == updateStatus(intentId, "paid")

markCompleted(intentId) == updateStatus(intentId, "completed")

\* webhook that skips the check of the payment's status
WebhookProcess_anyStatus(p, status, prefix, externalRef) ==
    /\ proc[p].pc = "idle"
    /\ proc[p].payStatus = ""
    /\ prefix = "SMAQ-" => externalRef \in approved
    /\ proc' = [proc EXCEPT
                  ![p].payStatus = status, ![p].prefix = prefix,
                  ![p].ref = externalRef,
                  ![p].pc = IF prefix = "SMAQ-" THEN "idle" ELSE "done",
                  ![p].action = IF prefix = "SMAQ-" THEN @ ELSE "ignored"]
    /\ UNCHANGED <<balance, history, intents, preferences, approved, now, cinema>>

\* the webhook from the notification to the checks on the payment that
\* processWebhook fetched: only an APPROVED payment whose reference starts
\* with SMAQ- goes on (the handler stays "idle", about to look the intent up)
WebhookProcess(p, status, prefix, externalRef) ==
    /\ proc[p].pc = "idle"
    /\ proc[p].payStatus = ""
    /\ (status = "APPROVED" /\ prefix = "SMAQ-") => externalRef \in approved
    /\ LET settles == status = "APPROVED" /\ prefix = "SMAQ-" IN
       proc' = [proc EXCEPT
                  ![p].payStatus = status, ![p].prefix = prefix,
                  ![p].ref = externalRef,
                  ![p].pc = IF settles THEN "idle" ELSE "done",
                  ![p].action = IF settles THEN @ ELSE "ignored"]
    /\ UNCHANGED <<balance, history, intents, preferences, approved, now, cinema>>

\* lookup that takes a paid intent up again, as a retry of its settlement
WebhookLookup_retriesPaid(p, externalRef) ==
    /\ proc[p].pc = "idle"
    /\ externalRef \in approved
    /\ LET intent == getIntentByExternalRef(externalRef)
           started == [proc[p] EXCEPT
                         !.ref = externalRef,
                         !.late = (intent # NoIntent /\ now > intent.expiresAt),
                         !.after = {q \in WebhookProcs :
                                       /\ proc[q].pc = "done"
                                       /\ proc[q].ref = externalRef}]
       IN proc' = [proc EXCEPT
            ![p] = IF intent = NoIntent
                   THEN [started EXCEPT !.pc = "done", !.action = "not_found"]
                   ELSE IF intent.status \notin {"pending", "paid"}
                   THEN [started EXCEPT !.pc = "done",
                                        !.action = "already_processed"]
                   ELSE [started EXCEPT !.pc = "markPaid", !.intent = intent]]
    /\ UNCHANGED <<balance, history, intents, preferences, approved, now, cinema>>

\* lookup that settles whatever the intent's status is
WebhookLookup_anyStatus(p, externalRef) ==
    /\ proc[p].pc = "idle"
    /\ externalRef \in approved
    /\ LET intent == getIntentByExternalRef(externalRef)
           started == [proc[p] EXCEPT
                         !.ref = externalRef,
                         !.late = (intent # NoIntent /\ now > intent.expiresAt),
                         !.after = {q \in WebhookProcs :
                                       /\ proc[q].pc = "done"
                                       /\ proc[q].ref = externalRef}]
       IN proc' = [proc EXCEPT
            ![p] = IF intent = NoIntent
                   THEN [started EXCEPT !.pc = "done", !.action = "not_found"]
                   ELSE [started EXCEPT !.pc = "markPaid", !.intent = intent]]
    /\ UNCHANGED <<balance, history, intents, preferences, approved, now, cinema>>

\* a notification of an approved payment arrives; the intent is looked up
WebhookLookup(p, externalRef) ==
    /\ proc[p].pc = "idle"
    /\ externalRef \in approved
    /\ LET intent == getIntentByExternalRef(externalRef)
           started == [proc[p] EXCEPT
                         !.ref = externalRef,
                         !.late = (intent # NoIntent /\ now > intent.expiresAt),
                         !.after = {q \in WebhookProcs :
                                       /\ proc[q].pc = "done"
                                       /\ proc[q].ref = externalRef}]
       IN proc' = [proc EXCEPT
            ![p] = IF intent = NoIntent
                   THEN [started EXCEPT !.pc = "done", !.action = "not_found"]
                   ELSE IF intent.status # "pending"
                   THEN [started EXCEPT !.pc = "done",
                                        !.action = "already_processed"]
                   ELSE [started EXCEPT !.pc = "markPaid", !.intent = intent]]
    /\ UNCHANGED <<balance, history, intents, preferences, approved, now, cinema>>

\* settlement that goes on to the credit without writing 'paid'
WebhookMarkPaid_noWrite(p) ==
    /\ proc[p].pc = "markPaid"
    /\ proc' = [proc EXCEPT ![p].pc = "credit"]
    /\ UNCHANGED <<balance, history, intents, preferences, approved, now, cinema>>

WebhookMarkPaid(p) ==
    /\ proc[p].pc = "markPaid"
    /\ intents' = markPaid(proc[p].intent.id)
    /\ proc' = [proc EXCEPT ![p].pc = "credit"]
    /\ UNCHANGED <<balance, history, preferences, approved, now, cinema>>

WebhookCredit(p) ==
    /\ proc[p].pc = "credit"
    /\ credit(p, proc[p].intent.userEmail, proc[p].intent.smaqTopup)
    /\ UNCHANGED <<intents, preferences, approved, now, cinema>>

\* settlement that charges the top-up amount instead of the price
WebhookCharge_topup(p) ==
    /\ proc[p].pc = "charge"
    /\ charge(p, proc[p].intent.userEmail, proc[p].intent.smaqTopup)
    /\ UNCHANGED <<intents, preferences, approved, now, cinema>>

WebhookCharge(p) ==
    /\ proc[p].pc = "charge"
    /\ charge(p, proc[p].intent.userEmail, proc[p].intent.smaqRequired)
    /\ UNCHANGED <<intents, preferences, approved, now, cinema>>

WebhookMarkCompleted(p) ==
    /\ proc[p].pc = "markCompleted"
    /\ intents' = markCompleted(proc[p].intent.id)
    /\ proc' = [proc EXCEPT
                  ![p].pc = IF proc[p].intent.walletObjectId # NoWallet
                            THEN "walletSync" ELSE "done",
                  ![p].action = "completed"]
    /\ UNCHANGED <<balance, history, preferences, approved, now, cinema>>

\* ----------------------------------------------------------- Google Wallet
\* WalletSyncService.updateBalance answers true, answers false (its own
\* catch), or throws out of ensureInitialized, awaited before its try
UpdateBalanceOutcomes == {"true", "false", "throws"}

\* sync whose throw reaches the handler's outer catch
WalletSync_uncaught(p, outcome) ==
    /\ proc[p].pc = "walletSync"
    /\ outcome \in UpdateBalanceOutcomes
    /\ proc' = [proc EXCEPT
                  ![p].pc = "done", ![p].sync = outcome,
                  ![p].action = IF outcome = "throws" THEN "error500" ELSE @]
    /\ UNCHANGED <<balance, history, intents, preferences, approved, now, cinema>>

\* the try { await walletSync.updateBalance(...) } catch { log } block that
\* ends the top-up handler's direct purchase and the webhook's settlement
WalletSync(p, outcome) ==
    /\ proc[p].pc = "walletSync"
    /\ outcome \in UpdateBalanceOutcomes
    /\ proc' = [proc EXCEPT ![p].pc = "done", ![p].sync = outcome]
    /\ UNCHANGED <<balance, history, intents, preferences, approved, now, cinema>>

\* ------------------------------------------------- GET /api/smaq/balance
BalanceApi(p, email) ==
    /\ proc[p].pc = "idle"
    /\ proc' = [proc EXCEPT ![p].pc = "done", ![p].email = email,
                            ![p].bal = getBalance(email),
                            ![p].readAt = IF email \in Citizens
                                          THEN Len(history[email]) ELSE 0,
                            ![p].action = "balance"]
    /\ UNCHANGED <<balance, history, intents, preferences, approved, now, cinema>>

\* ------------------------------------------------------ SmaqBank.linkWallet
\* records the link as a credit of 0 SMAQ
linkWallet(p, email) ==
    /\ proc[p].pc = "idle"
    /\ credit(p, email, 0)
    /\ UNCHANGED <<intents, preferences, approved, now, cinema>>

\* ------------------------------------------------------------- box office
\* One showtime.  A row of the reservations sheet keeps the columns the
\* handlers read or write: id (also the ticket's code), Estado Pago (G) and
\* Estado QR (J).
DiscountPercent == [FREE |-> 0, SUPPORTER |-> 20, VIP |-> 100]
SubscriptionTypes == DOMAIN DiscountPercent

\* core calculatePrice; the rounding is exact for these prices
calculatePrice(basePrice, subscriptionType) ==
    (basePrice * (100 - DiscountPercent[subscriptionType])) \div 100

IdleCinemaProc ==
    [pc |-> "idle", subscriptionType |-> "", spotsRemaining |-> 0,
     ticketCode |-> 0, reservationId |-> 0, status |-> ""]

\* ReservationSyncService.countApprovedReservations
countApprovedReservations ==
    Cardinality({i \in DOMAIN reservations :
                    reservations[i].paymentStatus = "APPROVED"})

\* ReservationManager.createReservation up to the availability check
createReservation(p, subscriptionType) ==
    /\ cproc[p].pc = "idle"
    /\ LET spotsRemaining == MAX_CAPACITY - countApprovedReservations IN
       cproc' = [cproc EXCEPT
                   ![p] = IF spotsRemaining > 0
                          THEN [@ EXCEPT !.pc = "addReservation",
                                         !.subscriptionType = subscriptionType,
                                         !.spotsRemaining = spotsRemaining]
                          ELSE [@ EXCEPT !.pc = "done",
                                         !.subscriptionType = subscriptionType,
                                         !.status = "sold_out"]]
    /\ UNCHANGED <<balance, history, intents, preferences, approved, now, proc,
                   reservations>>

\* ReservationManager.createReservation from the price to the appended row
addReservation(p) ==
    /\ cproc[p].pc = "addReservation"
    /\ LET pricePaid == calculatePrice(BASE_PRICE, cproc[p].subscriptionType)
           row == [id |-> Len(reservations) + 1,
                   paymentStatus |->
                       IF cproc[p].subscriptionType = "VIP" /\ pricePaid = 0
                       THEN "APPROVED" ELSE "PENDING",
                   ticketStatus |-> "VALID"]
       IN /\ reservations' = Append(reservations, row)
          /\ cproc' = [cproc EXCEPT ![p].pc = "done", ![p].status = "created",
                                    ![p].reservationId = row.id,
                                    ![p].spotsRemaining = @ - 1]
    /\ UNCHANGED <<balance, history, intents, preferences, approved, now, proc>>

\* ReservationSyncService.updatePaymentStatus, as the MercadoPago webhook
\* and ReservationManager.confirmPayment call it for an approved payment
updatePaymentStatus(reservationId, paymentStatus) ==
    /\ reservationId \in DOMAIN reservations
    /\ reservations' = [reservations EXCEPT
                          ![reservationId].paymentStatus = paymentStatus]
    /\ UNCHANGED <<balance, history, intents, preferences, approved, now, proc,
                   cproc>>

confirmPayment(reservationId) == updatePaymentStatus(reservationId, "APPROVED")

\* ReservationSyncService.getReservationByTicketCode: the row, or none
getReservationByTicketCode(ticketCode) ==
    IF ticketCode \in DOMAIN reservations
    THEN reservations[ticketCode]
    ELSE [id |-> 0, paymentStatus |-> "", ticketStatus |-> ""]

\* QRValidator.validate on the row it read (a scan during the show: the
\* three-hours-after-the-show rule does not apply)
validate(ticketCode, reservation) ==
    IF ticketCode < 0 THEN "INVALID_CODE"
    ELSE IF reservation.id = 0 THEN "NOT_FOUND"
    ELSE IF reservation.paymentStatus = "PENDING" THEN "PAYMENT_PENDING"
    ELSE IF reservation.paymentStatus \in {"CANCELLED", "REJECTED"}
    THEN "CANCELLED"
    ELSE IF reservation.ticketStatus = "USED" THEN "ALREADY_USED"
    ELSE "VALID"

\* QRValidator.validateAndUse up to the result of validate
validateAndUse(p, ticketCode) ==
    /\ cproc[p].pc = "idle"
    /\ LET reservation == getReservationByTicketCode(ticketCode)
           status == validate(ticketCode, reservation)
       IN cproc' = [cproc EXCEPT
                      ![p].ticketCode = ticketCode,
                      ![p].reservationId = reservation.id,
                      ![p].status = status,
                      ![p].pc = IF status = "VALID"
                                THEN "markTicketAsUsed" ELSE "done"]
    /\ UNCHANGED <<balance, history, intents, preferences, approved, now, proc,
                   reservations>>

\* ReservationSyncService.markTicketAsUsed, then validateAndUse returns
markTicketAsUsed(p) ==
    /\ cproc[p].pc = "markTicketAsUsed"
    /\ reservations' = [reservations EXCEPT
                          ![cproc[p].reservationId].ticketStatus = "USED"]
    /\ cproc' = [cproc EXCEPT ![p].pc = "done"]
    /\ UNCHANGED <<balance, history, intents, preferences, approved, now, proc>>

\* ------------------------------------------------------------------ clock
\* only time relative to an intent's creation is ever read, so the clock
\* stands at 0 until the first intent exists
Tick ==
    /\ intents # <<>>
    /\ now < MaxTicks * TickMinutes
    /\ now' = now + TickMinutes
    /\ UNCHANGED <<balance, history, intents, preferences, approved, proc, cinema>>

\* ---------------------------------------------------------- specification
\* an account's opening balance is the one entry of its history
Init ==
    /\ balance \in [Citizens -> 0..MaxInitBalance]
    /\ \A c \in Citizens \ Customers : balance[c] = 0
    /\ history = [c \in Citizens |->
                    IF balance[c] = 0 THEN <<>>
                    ELSE <<[amount |-> balance[c], type |-> "acreditacion",
                            by |-> "init"]>>]
    /\ intents = <<>>
    /\ preferences = {}
    /\ approved = {}
    /\ now = 0
    /\ proc = [p \in Procs |-> IdleProc]
    /\ reservations = <<>>
    /\ cproc = [p \in CinemaProcs |-> IdleCinemaProc]

Next ==
    \/ \E p \in ChargeProcs, e \in Customers, n \in Amounts : ChargeApi(p, e, n)
    \/ \E p \in CreditProcs, e \in Customers, n \in Amounts : CreditApi(p, e, n)
    \/ \E p \in TopupProcs, e \in CustomerEmails, n \in Amounts, x \in ExtraSmaqs :
          TopupStart(p, e, n, x, NoWallet)
    \/ \E p \in TopupProcs : TopupCharge(p)
    \/ \E p \in TopupProcs : TopupCreateIntent(p)
    \/ \E p \in TopupProcs : TopupCreatePreference(p, FALSE)
    \/ \E p \in TopupProcs : TopupSetMpPreferenceId(p)
    \/ \E pref \in preferences : Pay(pref)
    \/ \E p \in WebhookProcs, r \in approved : WebhookLookup(p, r)
    \/ \E p \in WebhookProcs : WebhookMarkPaid(p)
    \/ \E p \in WebhookProcs : WebhookCredit(p)
    \/ \E p \in WebhookProcs : WebhookCharge(p)
    \/ \E p \in WebhookProcs : WebhookMarkCompleted(p)
    \/ \E p \in Procs : chargeInsufficient(p)

\* no handler reads the clock except to stamp an intent, so the clock
\* stands still here
Spec == Init /\ [][Next]_vars

\* the same handlers with time passing
NextClock ==
    \/ Next
    \/ Tick

SpecClock == Init /\ [][NextClock]_vars

\* the purchase and settlement handlers with requests that carry a Google
\* Wallet pass and GOOGLE_WALLET_ISSUER_ID configured
NextWallet ==
    \/ \E p \in ChargeProcs, e \in Customers, n \in Amounts : ChargeApi(p, e, n)
    \/ \E p \in TopupProcs, e \in CustomerEmails, n \in Amounts, x \in ExtraSmaqs,
          w \in WalletIds : TopupStart(p, e, n, x, w)
    \/ \E p \in TopupProcs : TopupCharge(p)
    \/ \E p \in TopupProcs : TopupCreateIntent(p)
    \/ \E p \in TopupProcs : TopupCreatePreference(p, FALSE)
    \/ \E p \in TopupProcs : TopupSetMpPreferenceId(p)
    \/ \E pref \in preferences : Pay(pref)
    \/ \E p \in WebhookProcs, r \in approved : WebhookLookup(p, r)
    \/ \E p \in WebhookProcs : WebhookMarkPaid(p)
    \/ \E p \in WebhookProcs : WebhookCredit(p)
    \/ \E p \in WebhookProcs : WebhookCharge(p)
    \/ \E p \in WebhookProcs : WebhookMarkCompleted(p)
    \/ \E p \in Procs : chargeInsufficient(p)
    \/ \E p \in TopupProcs \cup WebhookProcs, o \in UpdateBalanceOutcomes :
          WalletSync(p, o)

SpecWallet == Init /\ [][NextWallet]_vars

\* the same handlers with MercadoPago failing to create a checkout
NextFaults ==
    \/ Next
    \/ \E p \in TopupProcs : TopupCreatePreference(p, TRUE)

SpecFaults == Init /\ [][NextFaults]_vars

\* suggestExtraSmaqs is taken from the request body as it comes: the
\* handler's validation looks at email, productType and smaqPrice only
SuggestedExtras == ExtraSmaqs \cup {-1}

\* the purchase and settlement handlers on their own, with requests whose
\* suggestExtraSmaqs is any number; MercadoPago refuses a checkout whose
\* unit_price is not positive
NextBuffer ==
    \/ \E p \in TopupProcs, e \in Customers, n \in Amounts,
          x \in SuggestedExtras : TopupStart(p, e, n, x, NoWallet)
    \/ \E p \in TopupProcs : TopupCharge(p)
    \/ \E p \in TopupProcs : TopupCreateIntent(p)
    \/ \E p \in TopupProcs :
          TopupCreatePreference(p, proc[p].intent.smaqTopup <= 0)
    \/ \E p \in TopupProcs : TopupSetMpPreferenceId(p)
    \/ \E pref \in preferences : Pay(pref)
    \/ \E p \in WebhookProcs, r \in approved : WebhookLookup(p, r)
    \/ \E p \in WebhookProcs : WebhookMarkPaid(p)
    \/ \E p \in WebhookProcs : WebhookCredit(p)
    \/ \E p \in WebhookProcs : WebhookCharge(p)
    \/ \E p \in WebhookProcs : WebhookMarkCompleted(p)
    \/ \E p \in Procs : chargeInsufficient(p)

SpecBuffer == Init /\ [][NextBuffer]_vars

\* two accounts side by side: every citizen has an opening balance and
\* every request may name any citizen; credits are the settlements' ones
InitAccounts ==
    /\ balance \in [Citizens -> 0..MaxInitBalance]
    /\ history = [c \in Citizens |->
                    IF balance[c] = 0 THEN <<>>
                    ELSE <<[amount |-> balance[c], type |-> "acreditacion",
                            by |-> "init"]>>]
    /\ intents = <<>>
    /\ preferences = {}
    /\ approved = {}
    /\ now = 0
    /\ proc = [p \in Procs |-> IdleProc]
    /\ reservations = <<>>
    /\ cproc = [p \in CinemaProcs |-> IdleCinemaProc]

NextAccounts ==
    \/ \E p \in ChargeProcs, e \in Citizens, n \in Amounts : ChargeApi(p, e, n)
    \/ \E p \in TopupProcs, e \in Citizens, n \in Amounts :
          TopupStart(p, e, n, 0, NoWallet)
    \/ \E p \in TopupProcs : TopupCharge(p)
    \/ \E p \in TopupProcs : TopupCreateIntent(p)
    \/ \E p \in TopupProcs : TopupCreatePreference(p, FALSE)
    \/ \E p \in TopupProcs : TopupSetMpPreferenceId(p)
    \/ \E pref \in preferences : Pay(pref)
    \/ \E p \in WebhookProcs, r \in approved : WebhookLookup(p, r)
    \/ \E p \in WebhookProcs : WebhookMarkPaid(p)
    \/ \E p \in WebhookProcs : WebhookCredit(p)
    \/ \E p \in WebhookProcs : WebhookCharge(p)
    \/ \E p \in WebhookProcs : WebhookMarkCompleted(p)
    \/ \E p \in Procs : chargeInsufficient(p)

SpecAccounts == InitAccounts /\ [][NextAccounts]_vars

\* the ledger on its own: charge, credit, balance read, wallet link
NextBank ==
    \/ \E p \in ChargeProcs, e \in CustomerEmails, n \in Amounts :
          ChargeApi(p, e, n)
    \/ \E p \in CreditProcs, e \in Customers, n \in Amounts : CreditApi(p, e, n)
    \/ \E p \in ChargeProcs : chargeInsufficient(p)
    \/ \E p \in BalanceProcs, e \in CustomerEmails : BalanceApi(p, e)
    \/ \E p \in LinkProcs, e \in CustomerEmails : linkWallet(p, e)

SpecBank == Init /\ [][NextBank]_vars

\* the ledger over a citizens table whose dracma_balance column holds any
\* number, negative ones included, with the one entry that sums to it
StoredBalances == (0 - MaxInitBalance)..MaxInitBalance

InitStored ==
    /\ balance \in [Citizens -> StoredBalances]
    /\ \A c \in Citizens \ Customers : balance[c] = 0
    /\ history = [c \in Citizens |->
                    IF balance[c] = 0 THEN <<>>
                    ELSE <<[amount |-> balance[c],
                            type |-> IF balance[c] > 0 THEN "acreditacion"
                                     ELSE "consumo",
                            by |-> "init"]>>]
    /\ intents = <<>>
    /\ preferences = {}
    /\ approved = {}
    /\ now = 0
    /\ proc = [p \in Procs |-> IdleProc]
    /\ reservations = <<>>
    /\ cproc = [p \in CinemaProcs |-> IdleCinemaProc]

SpecStored == InitStored /\ [][NextBank]_vars

\* notifications of any payment status and reference, over a sheet that
\* already holds one intent, in any status, whose payment was approved;
\* an approved payment with a reference of no intent exists as well
StoredIntents ==
    {[id |-> 1, userEmail |-> e, smaqRequired |-> r, smaqTopup |-> t,
      mpPreferenceId |-> 1, createdAt |-> 0, expiresAt |-> EXPIRY_MINUTES,
      status |-> st, walletObjectId |-> NoWallet] :
        e \in Customers, r \in Amounts, t \in Amounts, st \in IntentStatuses}

InitNotify ==
    /\ balance \in [Citizens -> 0..MaxInitBalance]
    /\ \A c \in Citizens \ Customers : balance[c] = 0
    /\ history = [c \in Citizens |->
                    IF balance[c] = 0 THEN <<>>
                    ELSE <<[amount |-> balance[c], type |-> "acreditacion",
                            by |-> "init"]>>]
    /\ intents \in {<<it>> : it \in StoredIntents}
    /\ preferences = {[intentId |-> intents[1].id,
                       smaqAmount |-> intents[1].smaqTopup,
                       expiresTo |-> EXPIRY_MINUTES]}
    /\ approved = {intents[1].id, UnknownRef}
    /\ now = 0
    /\ proc = [p \in Procs |-> IdleProc]
    /\ reservations = <<>>
    /\ cproc = [p \in CinemaProcs |-> IdleCinemaProc]

NextNotify ==
    \/ \E p \in WebhookProcs, st \in PaymentStatuses, pre \in RefPrefixes,
          r \in approved : WebhookProcess(p, st, pre, r)
    \/ \E p \in WebhookProcs :
          /\ proc[p].payStatus = "APPROVED"
          /\ proc[p].prefix = "SMAQ-"
          /\ WebhookLookup(p, proc[p].ref)
    \/ \E p \in WebhookProcs : WebhookMarkPaid(p)
    \/ \E p \in WebhookProcs : WebhookCredit(p)
    \/ \E p \in WebhookProcs : WebhookCharge(p)
    \/ \E p \in WebhookProcs : WebhookMarkCompleted(p)
    \/ \E p \in WebhookProcs : chargeInsufficient(p)

SpecNotify == InitNotify /\ [][NextNotify]_vars

\* the box office: a showtime with at most MaxFreeSpots seats left, every
\* sold seat paid and not yet admitted
SoldRows(n) ==
    [i \in 1..n |-> [id |-> i, paymentStatus |-> "APPROVED",
                     ticketStatus |-> "VALID"]]

InitCinema ==
    /\ balance = [c \in Citizens |-> 0]
    /\ history = [c \in Citizens |-> <<>>]
    /\ intents = <<>>
    /\ preferences = {}
    /\ approved = {}
    /\ now = 0
    /\ proc = [p \in Procs |-> IdleProc]
    /\ reservations \in {SoldRows(MAX_CAPACITY - free) : free \in 0..MaxFreeSpots}
    /\ cproc = [p \in CinemaProcs |-> IdleCinemaProc]

\* the codes presented at the door: undecodable (-1), unknown (0), the
\* first ticket sold and the tickets of the last seats
ScanCodes ==
    {-1, 0, 1} \cup {i \in DOMAIN reservations : i >= MAX_CAPACITY - MaxFreeSpots}

NextCinema ==
    \/ \E p \in ReserveProcs, t \in SubscriptionTypes : createReservation(p, t)
    \/ \E p \in ReserveProcs : addReservation(p)
    \/ \E i \in DOMAIN reservations : confirmPayment(i)
    \/ \E p \in ScanProcs, c \in ScanCodes : validateAndUse(p, c)
    \/ \E p \in ScanProcs : markTicketAsUsed(p)

SpecCinema == InitCinema /\ [][NextCinema]_vars

\* the door with payment notifications coming in: the MercadoPago webhook
\* writes whatever status processWebhook mapped the payment to into the row
\* of the notification's reference
NextRefunds ==
    \/ \E i \in ScanCodes \cap DOMAIN reservations, st \in PaymentStatuses :
          updatePaymentStatus(i, st)
    \/ \E p \in ScanProcs, c \in ScanCodes : validateAndUse(p, c)
    \/ \E p \in ScanProcs : markTicketAsUsed(p)

SpecRefunds == InitCinema /\ [][NextRefunds]_vars

\* ------------------------------------------------------ derived notions
\* every transaction row, as <<citizen, position in the history>>
EntryRefs == UNION {{<<c, i>> : i \in DOMAIN history[c]} : c \in Citizens}

Entry(r) == history[r[1]][r[2]]

\* the rows written by handler p
EntriesBy(p) == {r \in EntryRefs : Entry(r).by = p}

\* the webhook handlers that took intent id up for settlement
Settlers(id) == {w \in WebhookProcs : proc[w].intent.id = id}

\* the credit rows / charge rows written by settlements of intent id
CreditsOf(id) ==
    {r \in EntryRefs : Entry(r).by \in Settlers(id) /\ Entry(r).type = "acreditacion"}

ChargesOf(id) ==
    {r \in EntryRefs : Entry(r).by \in Settlers(id) /\ Entry(r).type = "consumo"}

IntentIds == {intents[i].id : i \in DOMAIN intents}

StatusOf(id) == getIntent(id).status

\* the amounts of the charge calls on account c that returned success
RECURSIVE ChargedSum(_, _)
ChargedSum(S, c) ==
    IF S = {} THEN 0
    ELSE LET p == CHOOSE x \in S : TRUE IN
         (IF proc[p].chargeRes.success /\ proc[p].email = c
          THEN proc[p].amount ELSE 0) + ChargedSum(S \ {p}, c)

\* everything ever credited to account c, the opening balance included
CreditedSum(c) ==
    SumAmounts(SelectSeq(history[c], LAMBDA e : e.type = "acreditacion"))

\* ------------------------------------------------------------------ C1
\* C1: in every reachable state, whatever the interleaving of credit,
\* charge, top-up/purchase and payment-confirmation handlers, the balance of
\* every account (read by getBalance, and as the signed sum of its entries)
\* is greater than or equal to zero.
C1_BalanceNeverNegative ==
    /\ \A e \in Emails : getBalance(e) >= 0
    /\ \A c \in Citizens : SumAmounts(history[c]) >= 0

\* a charge went through, another was refused, a settlement credited, and
\* the account is exactly exhausted
C1_Witness ==
    \E c \in Citizens, p, q \in Procs, w \in WebhookProcs :
        /\ balance[c] = 0
        /\ proc[p].chargeRes.success /\ proc[p].email = c
        /\ proc[q].chargeRes.error = "Saldo insuficiente" /\ proc[q].email = c
        /\ proc[w].creditRes.success /\ proc[w].intent.userEmail = c

\* ------------------------------------------------------------------ C2
\* C2: charges on one account are serialized: the amounts of the charge
\* calls that returned success never add up to more than what the account
\* was credited (opening balance included); a call that returned success
\* wrote exactly one charge row of its amount, and every other call on the
\* account returned the insufficient-funds failure and wrote no row.
C2_ChargesNeverExceedFunds ==
    /\ \A c \in Citizens : ChargedSum(Procs, c) <= CreditedSum(c)
    /\ \A p \in Procs :
          (proc[p].chargeRes.called /\ proc[p].email \in Citizens) =>
             IF proc[p].chargeRes.success
             THEN /\ Cardinality(EntriesBy(p) \cap
                        {r \in EntryRefs : Entry(r).type = "consumo"}) = 1
                  /\ \A r \in EntriesBy(p) :
                        Entry(r).type = "consumo" =>
                           Entry(r).amount = -proc[p].amount
             ELSE /\ proc[p].chargeRes.error = "Saldo insuficiente"
                  /\ \A r \in EntriesBy(p) : Entry(r).type # "consumo"

\* two charge calls on an account that was never credited after opening,
\* which together ask for more than the opening balance: one went through,
\* the other was refused
C2_Witness ==
    \E c \in Citizens, p, q \in Procs :
        /\ p # q
        /\ history[c] # <<>> /\ history[c][1].by = "init"
        /\ \A i \in DOMAIN history[c] :
              i > 1 => history[c][i].type = "consumo"
        /\ proc[p].email = c /\ proc[q].email = c
        /\ proc[p].chargeRes.success
        /\ proc[q].chargeRes.error = "Saldo insuficiente"
        /\ proc[p].amount + proc[q].amount > history[c][1].amount
        /\ proc[q].amount <= history[c][1].amount

\* ------------------------------------------------------------------ C3
\* C3: for every intent, however many notifications of its payment are
\* handled, one after another or concurrently, at most one credit row and
\* at most one charge row are ever written by its settlement.
C3_AtMostOneCreditAndCharge ==
    \A id \in IntentIds :
        /\ Cardinality(CreditsOf(id)) <= 1
        /\ Cardinality(ChargesOf(id)) <= 1

\* ------------------------------------------------------------------ C4
\* two notifications of one payment handled in a row: the first found the
\* intent pending and ran to its end before the second was received
InARow(first, second) ==
    /\ first # second
    /\ proc[first].pc = "done" /\ proc[second].pc = "done"
    /\ proc[first].ref = proc[second].ref
    /\ proc[first].after = {}
    /\ first \in proc[second].after
    /\ proc[first].intent # NoIntent

\* the second call changed nothing: it answered "already processed", never
\* took the intent up (so never wrote its status) and wrote no ledger row
SecondIsNoOp(first, second) ==
    /\ proc[second].action = "already_processed"
    /\ proc[second].intent = NoIntent
    /\ EntriesBy(second) = {}
    /\ StatusOf(proc[first].ref) =
          IF proc[first].chargeRes.success THEN "completed" ELSE "paid"

\* C4 (as stated): two payment confirmations in a row for a pending intent
\* of an existing account leave exactly one credit row and exactly one
\* charge row, and the second call is a no-op.
C4_ExactlyOneCreditAndCharge ==
    \A first, second \in WebhookProcs :
        (InARow(first, second) /\ proc[first].intent.userEmail \in Citizens) =>
            /\ Cardinality(CreditsOf(proc[first].ref)) = 1
            /\ Cardinality(ChargesOf(proc[first].ref)) = 1
            /\ SecondIsNoOp(first, second)

\* C4 (amended): two payment confirmations in a row for a pending intent
\* leave at most one credit row (exactly one when the account exists) and
\* at most one charge row (exactly one when the settlement's charge
\* succeeded, none when it was refused and the intent stays paid); the
\* second call is a no-op.
C4_AtMostOnceInARow ==
    \A first, second \in WebhookProcs :
        InARow(first, second) =>
            LET id == proc[first].ref IN
            /\ Cardinality(CreditsOf(id)) <= 1
            /\ (proc[first].intent.userEmail \in Citizens =>
                   Cardinality(CreditsOf(id)) = 1)
            /\ Cardinality(ChargesOf(id)) =
                  IF proc[first].chargeRes.success THEN 1 ELSE 0
            /\ SecondIsNoOp(first, second)

\* both calls are over, one credit row and one charge row were written
C4_Witness ==
    \E first, second \in WebhookProcs :
        /\ InARow(first, second)
        /\ Cardinality(CreditsOf(proc[first].ref)) = 1
        /\ Cardinality(ChargesOf(proc[first].ref)) = 1
        /\ proc[second].action = "already_processed"

\* ------------------------------------------------------------------ C5
\* handler p's charge call reaches the record_dracma_transaction call in
\* this step
ChargeSerialized(p) ==
    IF p \in ChargeProcs
    THEN proc[p].pc = "idle" /\ proc'[p].pc # "idle"
    ELSE proc[p].pc = "charge" /\ proc'[p].pc # "charge"

\* C5: a charge whose amount is greater than the account's balance at the
\* serialization point fails with the insufficient-funds result; that call
\* writes no ledger row and leaves the balance as it is, and its result
\* carries the current balance and the requested amount.
C5_InsufficientFundsWritesNothing ==
    [][\A p \in Procs :
          /\ (/\ ChargeSerialized(p)
              /\ proc'[p].email \in Citizens
              /\ proc'[p].amount > balance[proc'[p].email])
             => /\ proc'[p].pc = "chargeInsufficient"
                /\ balance' = balance
                /\ history' = history
          /\ (proc[p].pc = "chargeInsufficient" /\ proc'[p].pc # "chargeInsufficient")
             => /\ balance' = balance
                /\ history' = history
                /\ proc'[p].chargeRes =
                      Failure(balance[proc[p].email], "Saldo insuficiente",
                              balance[proc[p].email], proc[p].amount)
      ]_vars

\* a refused charge returned, carrying a positive current balance smaller
\* than the amount asked for
C5_Witness ==
    \E p \in Procs :
        /\ proc[p].chargeRes.error = "Saldo insuficiente"
        /\ proc[p].chargeRes.newBalance > 0
        /\ proc[p].chargeRes.necesitas > proc[p].chargeRes.tenes
        /\ EntriesBy(p) \cap {r \in EntryRefs : Entry(r).type = "consumo"} = {}

\* ------------------------------------------------------------------ C6
\* C6: the status transition enforces the state machine: a status becomes
\* completed only from paid and becomes paid only from pending; a rejected
\* transition leaves the stored status unchanged.
C6_TransitionsGuarded ==
    [][\A i \in DOMAIN intents :
          intents'[i].status # intents[i].status =>
             /\ intents'[i].status = "completed" => intents[i].status = "paid"
             /\ intents'[i].status = "paid" => intents[i].status = "pending"
      ]_vars

\* ------------------------------------------------------------------ C7
\* C7: completed, expired and cancelled are terminal: once an intent has
\* one of these statuses, no later step changes its status.
C7_TerminalStatusesStay ==
    [][\A i \in DOMAIN intents :
          intents[i].status \in {"completed", "expired", "cancelled"} =>
             intents'[i].status = intents[i].status
      ]_vars

\* ------------------------------------------------------------------ C8
\* C8: a payment confirmation received after the intent's expiresAt neither
\* credits nor charges the ledger for it.
C8_LateConfirmationSettlesNothing ==
    \A w \in WebhookProcs : proc[w].late => EntriesBy(w) = {}

\* ------------------------------------------------------------------ C9
\* the stuck-settlement lines logged for intent id
StuckSignals(id) ==
    (IF proc["w1"].intent.id = id THEN proc["w1"].errors ELSE 0)
    + (IF proc["w2"].intent.id = id THEN proc["w2"].errors ELSE 0)

\* C9: when a settlement's charge failed after its credit succeeded, the
\* intent remains paid, the credit stays (the handler wrote its credit row
\* and nothing else, so nothing was reverted or retried) and exactly one
\* stuck-settlement signal exists for that intent.
C9_StuckSettlement ==
    \A w \in WebhookProcs :
        (/\ proc[w].pc = "done"
         /\ proc[w].creditRes.success
         /\ proc[w].chargeRes.called /\ ~proc[w].chargeRes.success) =>
            /\ StatusOf(proc[w].intent.id) = "paid"
            /\ StuckSignals(proc[w].intent.id) = 1
            /\ \A r \in EntriesBy(w) :
                  /\ Entry(r).type = "acreditacion"
                  /\ Entry(r).amount = proc[w].intent.smaqTopup
            /\ Cardinality(EntriesBy(w)) = 1

\* ----------------------------------------------------------------- C10
\* the top-up request that created intent id
Requester(id) == CHOOSE t \in TopupProcs : proc[t].intent.id = id

\* w is the one payment confirmation that took its intent up, the account
\* exists, and every row written to the account since the request read the
\* balance was written by w
SettledAlone(w) ==
    LET it == proc[w].intent IN
    /\ proc[w].pc = "done"
    /\ it # NoIntent
    /\ it.userEmail \in Citizens
    /\ Settlers(it.id) = {w}
    /\ \A i \in DOMAIN history[it.userEmail] :
          i > proc[Requester(it.id)].readAt =>
             history[it.userEmail][i].by = w

C11_SufficientBalanceCharges ==
    [][\A t \in TopupProcs :
         (/\ proc[t].pc = "charge"
          /\ proc'[t].pc # "charge"
          /\ proc[t].email \in Citizens
          /\ proc[t].bal >= proc[t].amount
          /\ Len(history[proc[t].email]) = proc[t].readAt)
         => LET e == proc[t].email
                price == proc[t].amount
            IN /\ proc'[t].action = "charged"
               /\ proc'[t].chargeRes.success
               /\ proc'[t].chargeRes.newBalance = proc[t].bal - price
               /\ balance'[e] = proc[t].bal - price
               /\ history'[e] = Append(history[e],
                                       [amount |-> 0 - price, type |-> "consumo",
                                        by |-> t])
               /\ EntriesBy(t) = {}
               /\ intents' = intents
               /\ preferences' = preferences
               /\ proc'[t].intent = NoIntent]_vars

C11_Witness ==
    \E t \in TopupProcs :
        /\ proc[t].pc = "done"
        /\ proc[t].action = "charged"
        /\ proc[t].chargeRes.newBalance = proc[t].bal - proc[t].amount
        /\ Cardinality(EntriesBy(t)) = 1
        /\ intents = <<>>

\* ----------------------------------------------------------------- C12
\* C12: when requestPurchase read a balance below the price it writes no
\* ledger entry, appends exactly one intent, pending, with smaqRequired =
\* price and smaqTopup = price - balance + suggestExtraSmaqs, attaches the
\* checkout reference to that intent, and answers "topup_required" with
\* that smaqTopup.
C12_InsufficientBalanceOpensIntent ==
    [][\A t \in TopupProcs :
         LET topup == proc[t].amount - proc[t].bal + proc[t].extra IN
         /\ (proc[t].pc = "createIntent" /\ proc'[t].pc # "createIntent")
            => /\ proc[t].bal < proc[t].amount
               /\ Len(intents') = Len(intents) + 1
               /\ SubSeq(intents', 1, Len(intents)) = intents
               /\ LET row == intents'[Len(intents')] IN
                  /\ row.status = "pending"
                  /\ row.userEmail = proc[t].email
                  /\ row.smaqRequired = proc[t].amount
                  /\ row.smaqTopup = topup
                  /\ proc'[t].intent = row
               /\ UNCHANGED <<balance, history>>
         /\ (proc[t].pc = "setMpPreferenceId" /\ proc'[t].pc # "setMpPreferenceId")
            => LET id == proc[t].intent.id IN
               /\ proc'[t].pc = "done"
               /\ proc'[t].action = "topup_required"
               /\ proc'[t].intent.smaqTopup = topup
               /\ Cardinality({i \in DOMAIN intents' : intents'[i].id = id}) = 1
               /\ \A i \in DOMAIN intents' :
                     intents'[i].id = id
                     => /\ intents'[i].mpPreferenceId = id
                        /\ intents'[i].smaqTopup = topup
               /\ \E pref \in preferences :
                     pref.intentId = id /\ pref.smaqAmount = topup
               /\ EntriesBy(t) = {}
               /\ UNCHANGED <<balance, history>>]_vars

C12_Witness ==
    \E t \in TopupProcs :
        /\ proc[t].pc = "done"
        /\ proc[t].action = "topup_required"
        /\ proc[t].extra = 1
        /\ proc[t].bal > 0
        /\ proc[t].intent.smaqTopup = proc[t].amount - proc[t].bal + 1
        /\ getIntent(proc[t].intent.id).mpPreferenceId = proc[t].intent.id

\* ----------------------------------------------------------------- C13
\* C13: a balance read returns a number that is never negative, and, while
\* the account's history is as it was at the read, equals the signed sum of
\* the account's entries floored at zero, also when the stored value is
\* negative.
Max0(n) == IF n < 0 THEN 0 ELSE n

C13_GetBalanceFlooredSum ==
    \A b \in BalanceProcs :
        proc[b].pc = "done"
        => /\ proc[b].bal >= 0
           /\ (proc[b].email \in Citizens
               /\ Len(history[proc[b].email]) = proc[b].readAt)
              => proc[b].bal = Max0(SumAmounts(history[proc[b].email]))

\* ----------------------------------------------------------------- C14
\* C14: linking a wallet, which is credit(account, 0, ...), on an existing
\* account succeeds, leaves the balance as it was and appends exactly one
\* entry, of amount 0, to the account's history.
C14_ZeroCreditAppendsEntry ==
    [][\A l \in LinkProcs, e \in Citizens :
         (proc[l].pc = "idle" /\ proc'[l].pc = "done" /\ proc'[l].email = e)
         => /\ proc'[l].amount = 0
            /\ proc'[l].creditRes.success
            /\ proc'[l].creditRes.newBalance = balance[e]
            /\ balance' = balance
            /\ Len(history'[e]) = Len(history[e]) + 1
            /\ history'[e] = Append(history[e],
                                    [amount |-> 0, type |-> "acreditacion",
                                     by |-> l])]_vars

C14_Witness ==
    \E l \in LinkProcs, e \in Citizens :
        /\ proc[l].pc = "done"
        /\ proc[l].email = e
        /\ proc[l].creditRes.success
        /\ balance[e] > 0
        /\ \E r \in EntriesBy(l) : Entry(r).amount = 0

\* ----------------------------------------------------------------- C15
\* C15: the wallet sync that ends a purchase or a settlement changes
\* nothing but the handler's own position, whether updateBalance answers
\* true, answers false or throws: the ledger entries, the balances, the
\* intents and the handler's response stay as the committed charge and the
\* paid -> completed write left them.
C15_DisplaySyncBestEffort ==
    [][\A p \in TopupProcs \cup WebhookProcs :
         (proc[p].pc = "walletSync" /\ proc'[p].pc # "walletSync")
         => /\ UNCHANGED <<balance, history, intents, preferences>>
            /\ proc'[p].pc = "done"
            /\ proc'[p].sync \in UpdateBalanceOutcomes
            /\ proc[p].chargeRes.success
            /\ proc'[p].chargeRes = proc[p].chargeRes
            /\ proc'[p].action = proc[p].action
            /\ proc[p].action = IF p \in WebhookProcs
                                THEN "completed" ELSE "charged"
            /\ \E r \in EntriesBy(p) :
                  /\ Entry(r).type = "consumo"
                  /\ Entry(r).amount = 0 - proc[p].amount]_vars

C15_Witness ==
    /\ \E w \in WebhookProcs :
          /\ proc[w].pc = "done"
          /\ proc[w].sync = "throws"
          /\ proc[w].action = "completed"
          /\ StatusOf(proc[w].intent.id) = "completed"
    /\ \E w \in WebhookProcs :
          /\ proc[w].pc = "done"
          /\ proc[w].sync = "false"
          /\ proc[w].action = "completed"

\* ----------------------------------------------------------------- C16
\* C16: under any interleaving of createReservation calls and payment
\* confirmations, the reservations of the showtime whose payment status is
\* APPROVED never number more than MAX_CAPACITY.
C16_ApprovedWithinCapacity == countApprovedReservations <= MAX_CAPACITY

\* ----------------------------------------------------------------- C17
\* C17: for every ticket code, at most one validateAndUse call returns
\* VALID, whether the scans of the code follow each other or overlap.
C17_AdmittedAtMostOnce ==
    \A code \in DOMAIN reservations :
        Cardinality({p \in ScanProcs :
                        /\ cproc[p].pc = "done"
                        /\ cproc[p].ticketCode = code
                        /\ cproc[p].status = "VALID"}) <= 1

\* ----------------------------------------------------------------- C18
\* C18: once every settlement run that took an intent up has finished, an
\* intent in status paid or completed has a credit entry of its smaqTopup
\* on its account.
C18_PaidImpliesCredited ==
    \A id \in IntentIds :
        (/\ StatusOf(id) \in {"paid", "completed"}
         /\ Settlers(id) # {}
         /\ \A w \in Settlers(id) : proc[w].pc = "done")
        => \E r \in CreditsOf(id) :
              /\ r[1] = getIntent(id).userEmail
              /\ Entry(r).amount = getIntent(id).smaqTopup

\* ----------------------------------------------------------------- C19
\* C19: when requestPurchase read a sufficient balance and its charge is
\* then refused for lack of funds, the handler ends with the error of the
\* charge, which carries the balance re-read after the refusal and the
\* requested amount; it writes no ledger entry, opens no intent and does
\* not answer "charged".
C19_RefusedChargeReportsInsufficiency ==
    [][\A t \in TopupProcs :
         /\ (proc[t].pc = "charge" /\ proc'[t].pc = "chargeInsufficient")
            => UNCHANGED <<balance, history, intents, preferences>>
         /\ (/\ proc[t].pc = "chargeInsufficient"
             /\ proc'[t].pc # "chargeInsufficient"
             /\ proc[t].bal >= proc[t].amount)
            => /\ proc'[t].pc = "done"
               /\ proc'[t].action = "error"
               /\ ~proc'[t].chargeRes.success
               /\ proc'[t].chargeRes.error = "Saldo insuficiente"
               /\ proc'[t].chargeRes.tenes = balance[proc[t].email]
               /\ proc'[t].chargeRes.necesitas = proc[t].amount
               /\ UNCHANGED <<balance, history, intents, preferences>>
               /\ EntriesBy(t) = {}
               /\ proc'[t].intent = NoIntent]_vars

C19_Witness ==
    \E t \in TopupProcs :
        /\ proc[t].pc = "done"
        /\ proc[t].bal >= proc[t].amount
        /\ proc[t].action = "error"
        /\ proc[t].chargeRes.error = "Saldo insuficiente"
        /\ proc[t].chargeRes.tenes < proc[t].bal
        /\ EntriesBy(t) = {}

\* ----------------------------------------------------------------- C20
\* C20: when createTopupPreference throws on the insufficient-balance path
\* of requestPurchase, the handler answers with the error and leaves
\* nothing behind: no intent of that request is stored and no ledger entry
\* is written.
C20_CheckoutFailureLeavesNothing ==
    \A t \in TopupProcs :
        (proc[t].pc = "done" /\ proc[t].action = "error500")
        => /\ proc[t].intent.id \notin IntentIds
           /\ EntriesBy(t) = {}

\* ----------------------------------------------------------------- C21
\* C21: a confirmation whose reference matches no intent, or whose intent
\* is in a status other than pending (paid, completed, expired, cancelled),
\* ends at the lookup without an error and leaves every ledger entry, every
\* balance and every intent as they were.
C21_NonPendingIsNoOp ==
    [][\A w \in WebhookProcs :
         (/\ proc[w].pc = "idle"
          /\ proc[w].payStatus = "APPROVED"
          /\ proc[w].prefix = "SMAQ-"
          /\ proc'[w] # proc[w]
          /\ getIntentByExternalRef(proc[w].ref).status # "pending")
         => /\ proc'[w].pc = "done"
            /\ proc'[w].action =
                  IF getIntentByExternalRef(proc[w].ref) = NoIntent
                  THEN "not_found" ELSE "already_processed"
            /\ proc'[w].errors = 0
            /\ ~proc'[w].creditRes.called
            /\ ~proc'[w].chargeRes.called
            /\ UNCHANGED <<balance, history, intents, preferences>>]_vars

C21_Witness ==
    \E v, w \in WebhookProcs :
        /\ proc[v].pc = "done"
        /\ proc[v].action = "not_found"
        /\ proc[v].ref = UnknownRef
        /\ proc[w].pc = "done"
        /\ proc[w].action = "already_processed"
        /\ StatusOf(proc[w].ref) \in {"paid", "expired", "cancelled"}
        /\ intents \in {<<it>> : it \in StoredIntents}

\* ----------------------------------------------------------------- C28
\* C28: a notification whose payment is not APPROVED, or whose external
\* reference does not start with SMAQ-, ends the webhook at once: it never
\* changes an intent and never writes a ledger entry, then or later.
C28_OnlyApprovedTopupsSettle ==
    [][\A w \in WebhookProcs :
         /\ (/\ proc[w].pc = "idle"
             /\ proc[w].payStatus = ""
             /\ proc'[w] # proc[w]
             /\ (proc'[w].payStatus # "APPROVED" \/ proc'[w].prefix # "SMAQ-"))
            => /\ proc'[w].pc = "done"
               /\ UNCHANGED <<balance, history, intents, preferences>>
         /\ (/\ proc[w].payStatus # ""
             /\ (proc[w].payStatus # "APPROVED" \/ proc[w].prefix # "SMAQ-"))
            => /\ proc'[w] = proc[w]
               /\ proc[w].intent = NoIntent
               /\ ~proc[w].creditRes.called
               /\ ~proc[w].chargeRes.called
               /\ EntriesBy(w) = {}]_vars

C28_Witness ==
    \E v, w \in WebhookProcs :
        /\ proc[v].pc = "done"
        /\ proc[v].payStatus = "REJECTED"
        /\ proc[v].prefix = "SMAQ-"
        /\ proc[v].ref = intents[1].id
        /\ proc[w].pc = "done"
        /\ proc[w].payStatus = "APPROVED"
        /\ proc[w].prefix = "AMO-"
        /\ intents[1].status = "pending"
        /\ history = [c \in Citizens |->
                        IF balance[c] = 0 THEN <<>>
                        ELSE <<[amount |-> balance[c], type |-> "acreditacion",
                                by |-> "init"]>>]

\* ----------------------------------------------------------------- C22
\* C22: in no reachable state does a top-up credit entry of an intent's
\* settlement exist, or is a settlement about to credit, while the intent's
\* status is still pending.
C22_PaidBeforeCredit ==
    /\ \A id \in IntentIds : CreditsOf(id) # {} => StatusOf(id) # "pending"
    /\ \A w \in WebhookProcs :
          proc[w].pc = "credit" => StatusOf(proc[w].intent.id) # "pending"

C22_Witness ==
    \E id \in IntentIds :
        /\ StatusOf(id) = "paid"
        /\ \E r \in CreditsOf(id) : Entry(r).amount = getIntent(id).smaqTopup
        /\ ChargesOf(id) = {}
        /\ \E w \in Settlers(id) : proc[w].pc = "charge"

\* ----------------------------------------------------------------- C23
\* C23: in every reachable state an intent whose status is completed has,
\* on its account, a charge entry of its smaqRequired written by a
\* settlement of that intent.
C23_CompletedImpliesCharged ==
    \A id \in IntentIds :
        StatusOf(id) = "completed"
        => \E r \in ChargesOf(id) :
              /\ r[1] = getIntent(id).userEmail
              /\ Entry(r).amount = 0 - getIntent(id).smaqRequired

C23_Witness ==
    \E id \in IntentIds :
        /\ StatusOf(id) = "completed"
        /\ Cardinality(ChargesOf(id)) = 1
        /\ \A w \in Settlers(id) : proc[w].pc = "done"

\* ----------------------------------------------------------------- C24
\* C24: for an e-mail without a citizen row a balance read answers 0, and a
\* charge fails as "user not found" in one step: it writes no entry, changes
\* no balance and adds no row to the citizens table.
C24_UnknownAccount ==
    [][\A p \in Procs :
         /\ (/\ p \in BalanceProcs
             /\ proc[p].pc = "idle"
             /\ proc'[p].pc = "done"
             /\ proc'[p].email \notin Citizens)
            => proc'[p].bal = 0
         /\ (/\ ~proc[p].chargeRes.called
             /\ proc'[p].chargeRes.called
             /\ proc'[p].email \notin Citizens)
            => /\ ~proc'[p].chargeRes.success
               /\ proc'[p].chargeRes.error = "Usuario no encontrado"
               /\ proc'[p].chargeRes.newBalance = 0
               /\ proc[p].pc # "chargeInsufficient"
               /\ balance' = balance
               /\ history' = history
               /\ DOMAIN balance' = Citizens]_vars

C24_Witness ==
    \E b \in BalanceProcs, c \in ChargeProcs :
        /\ proc[b].pc = "done"
        /\ proc[b].email \notin Citizens
        /\ proc[b].bal = 0
        /\ proc[c].pc = "done"
        /\ proc[c].email \notin Citizens
        /\ proc[c].chargeRes.error = "Usuario no encontrado"
        /\ \E a \in Customers : balance[a] > 0

\* ----------------------------------------------------------------- C25
\* C25: a credit of a non-negative amount on an existing account succeeds
\* whatever the balance, appends exactly one credit entry of that amount to
\* the account's history and returns the previous balance plus the amount.
C25_CreditAlwaysSucceeds ==
    [][\A p \in Procs :
         (/\ ~proc[p].creditRes.called
          /\ proc'[p].creditRes.called)
         => LET e == IF p \in WebhookProcs
                     THEN proc[p].intent.userEmail ELSE proc'[p].email
                n == IF p \in WebhookProcs
                     THEN proc[p].intent.smaqTopup ELSE proc'[p].amount
            IN  (e \in Citizens /\ n >= 0)
                => /\ proc'[p].creditRes.success
                   /\ proc'[p].creditRes.newBalance = balance[e] + n
                   /\ balance'[e] = balance[e] + n
                   /\ history'[e] = Append(history[e],
                                           [amount |-> n,
                                            type |-> "acreditacion",
                                            by |-> p])]_vars

\* a credit larger than the balance it met went through
C25_Witness ==
    \E k \in CreditProcs :
        /\ proc[k].pc = "done"
        /\ proc[k].email \in Citizens
        /\ proc[k].creditRes.success
        /\ proc[k].creditRes.newBalance < 2 * proc[k].amount
        /\ \E r \in EntriesBy(k) : Entry(r).amount = proc[k].amount

C27_TopupCoversShortfall ==
    \A t \in TopupProcs :
        proc[t].intent # NoIntent
        => /\ getIntent(proc[t].intent.id).smaqTopup > 0
           /\ getIntent(proc[t].intent.id).smaqTopup
                >= getIntent(proc[t].intent.id).smaqRequired - proc[t].bal

\* ----------------------------------------------------------------- C29
\* C29: a step of a charge, a credit, a purchase or a settlement leaves the
\* balance and the history of every account other than the one the handler
\* works on as they were, whatever runs in between.
AccountOf(p) ==
    IF p \in WebhookProcs THEN proc[p].intent.userEmail ELSE proc'[p].email

C29_OtherAccountsUntouched ==
    [][\A p \in Procs :
         proc'[p] # proc[p]
         => \A c \in Citizens \ {AccountOf(p)} :
               /\ balance'[c] = balance[c]
               /\ history'[c] = history[c]]_vars

\* a settlement on one account and a charge on the other both went through
C29_Witness ==
    \E w \in WebhookProcs, q \in ChargeProcs, c, d \in Citizens :
        /\ c # d
        /\ proc[w].pc = "done"
        /\ proc[w].intent.userEmail = c
        /\ \E r \in EntriesBy(w) : r[1] = c /\ Entry(r).type = "consumo"
        /\ proc[q].pc = "done"
        /\ proc[q].email = d
        /\ \E r \in EntriesBy(q) : r[1] = d

\* ----------------------------------------------------------------- C30
\* C30: a scan is answered VALID only for a reservation whose payment status
\* is APPROVED and whose ticket is not USED, and validateAndUse marks a
\* ticket USED only while its reservation's payment status is APPROVED.
C30_ValidOnlyWhenApproved ==
    [][\A p \in ScanProcs :
         /\ (cproc[p].pc = "idle" /\ cproc'[p].status = "VALID")
            => /\ cproc'[p].reservationId \in DOMAIN reservations
               /\ reservations[cproc'[p].reservationId].paymentStatus
                    = "APPROVED"
               /\ reservations[cproc'[p].reservationId].ticketStatus # "USED"
         /\ (cproc[p].pc = "markTicketAsUsed" /\ cproc'[p].pc = "done")
            => reservations[cproc[p].reservationId].paymentStatus
                 = "APPROVED"]_vars

====
